---- MODULE Spec2Model ----
(***************************************************************************)
(* Command pattern with undo: Editor, Command (Copy, Cut, Paste, Undo),    *)
(* CommandHistory and Application, and the demo commandUndoDemo.           *)
(* A text is a sequence of one-character strings.                          *)
(***************************************************************************)
EXTENDS Integers, Sequences, FiniteSets, TLC

\* ------------------------------------------------------------------ bounds
MaxLen == 2          \* longest text the exploration lets an editor hold
MaxExec == 2         \* executeCommand calls whose execute() returns true, per run
MaxEdits == 1        \* direct deleteSelection/replaceSelection calls, per run

\* ------------------------------------------------------- values and inputs
Chars == {"a", "b"}
HelloWorld == <<"H", "e", "l", "l", "o", " ", "W", "o", "r", "l", "d">>
HelloSp == <<"H", "e", "l", "l", "o", " ">>
World == <<"W", "o", "r", "l", "d">>

EditorIds == {1, 2}
Kinds == {"Copy", "Cut", "Paste", "Undo"}
Instances == {1}
CmdIds == [kind : Kinds, editor : EditorIds, n : Instances]
None == [kind |-> "None", editor |-> 0, n |-> 0]

Texts == UNION {[1..n -> Chars] : n \in 0..MaxLen}
InitTexts == {<< >>, <<"a", "b">>}
SelArgs == 0..MaxLen
WideSelArgs == (0 - 2)..(MaxLen + 2)
ReplaceArgs == {<<"b">>}
DemoTexts == {HelloWorld, <<"a", "b">>}
DemoSelArgs == {0, 5, 6, 11}
ClipboardEq == <<"c", "l", "i", "p", "b", "o", "a", "r", "d", "=">>
TextEq == <<"t", "e", "x", "t", "=">>

VARIABLES
  editors,       \* editors[e] = [text, selectionStart, selectionEnd]
  clipboard,     \* Application.clipboard
  activeEditor,  \* Application.activeEditor
  history,       \* Application.history.history, a stack of command instances
  backup,        \* backup[c] = Command.backup of instance c
  lastOp,        \* observer: the call made last, its arguments and outcome
  counts,        \* observer: calls counted so far
  lastPre,       \* observer: text just before the last execute() that returned true
  trail,         \* observer: the initial editor, and what the calls so far should have left
  demo,          \* commandUndoDemo: position, inputs and checkpoints
  memento,       \* memento example: Editor.content, History.mementos, observers
  iterator       \* iterator example: Collection.items, ConcreteIterator.index, observers

vars == <<editors, clipboard, activeEditor, history, backup, lastOp, counts, lastPre,
          trail, demo, memento, iterator>>

\* ------------------------------------------------------------ JS builtins
Max(a, b) == IF a >= b THEN a ELSE b
Min(a, b) == IF a <= b THEN a ELSE b

\* String.prototype.slice: a negative index counts from the end, both indices
\* are clamped to [0, length], an empty range yields the empty string
SliceIndex(i, len) == IF i < 0 THEN Max(len + i, 0) ELSE Min(i, len)
Slice(t, start, end) ==
  LET from == SliceIndex(start, Len(t))
      to == SliceIndex(end, Len(t))
  IN IF from >= to THEN << >> ELSE SubSeq(t, from + 1, to)
SliceFrom(t, start) == Slice(t, start, Len(t))

\* ------------------------------------------------------------------ Editor
Editor(t) == [text |-> t, selectionStart |-> 0, selectionEnd |-> 0]

\* variant: the end is clamped to [0, len] but not raised to the start
setSelectionNoOrder(ed, start, end) ==
  LET len == Len(ed.text)
      s == Max(0, Min(start, len))
  IN [ed EXCEPT !.selectionStart = s, !.selectionEnd = Max(0, Min(end, len))]

setSelection(ed, start, end) ==
  LET len == Len(ed.text)
      s == Max(0, Min(start, len))
  IN [ed EXCEPT !.selectionStart = s, !.selectionEnd = Max(s, Min(end, len))]

\* variant: the character at selectionEnd is included
getSelectionInclusive(ed) == Slice(ed.text, ed.selectionStart, ed.selectionEnd + 1)

getSelection(ed) == Slice(ed.text, ed.selectionStart, ed.selectionEnd)

\* variant: the selection is not collapsed
deleteSelectionNoCollapse(ed) ==
  LET pre == Slice(ed.text, 0, ed.selectionStart)
      suf == SliceFrom(ed.text, ed.selectionEnd)
  IN [ed EXCEPT !.text = pre \o suf]

\* variant: the suffix is taken from the selection start, nothing is removed
deleteSelectionKeep(ed) ==
  LET pre == Slice(ed.text, 0, ed.selectionStart)
      suf == SliceFrom(ed.text, ed.selectionStart)
  IN [ed EXCEPT !.text = pre \o suf, !.selectionEnd = ed.selectionStart]

deleteSelection(ed) ==
  LET pre == Slice(ed.text, 0, ed.selectionStart)
      suf == SliceFrom(ed.text, ed.selectionEnd)
  IN [ed EXCEPT !.text = pre \o suf, !.selectionEnd = ed.selectionStart]

\* variant: the selection is collapsed at its start
replaceSelectionCollapse(ed, t) ==
  LET pre == Slice(ed.text, 0, ed.selectionStart)
      suf == SliceFrom(ed.text, ed.selectionEnd)
  IN [ed EXCEPT !.text = pre \o t \o suf,
                !.selectionEnd = ed.selectionStart]

\* variant: the new text is put after the suffix
replaceSelectionAfter(ed, t) ==
  LET pre == Slice(ed.text, 0, ed.selectionStart)
      suf == SliceFrom(ed.text, ed.selectionEnd)
  IN [ed EXCEPT !.text = pre \o suf \o t,
                !.selectionEnd = ed.selectionStart + Len(t)]

replaceSelection(ed, t) ==
  LET pre == Slice(ed.text, 0, ed.selectionStart)
      suf == SliceFrom(ed.text, ed.selectionEnd)
  IN [ed EXCEPT !.text = pre \o t \o suf,
                !.selectionEnd = ed.selectionStart + Len(t)]

Last(q) == IF q = << >> THEN << >> ELSE q[Len(q)]

Front(q) == SubSeq(q, 1, Len(q) - 1)

\* ---------------------------------------------------------- CommandHistory
\* variant: the command is put at the front
pushFront(h, c) == <<c>> \o h

push(h, c) == Append(h, c)

\* variant: the oldest command is removed and returned
popOldest(h) ==
  IF h = << >> THEN [history |-> h, command |-> None]
  ELSE [history |-> Tail(h), command |-> h[1]]

\* variant: the last command is returned but stays on the stack
popKeep(h) ==
  IF h = << >> THEN [history |-> h, command |-> None]
  ELSE [history |-> h, command |-> h[Len(h)]]

pop(h) ==
  IF h = << >> THEN [history |-> h, command |-> None]
  ELSE [history |-> SubSeq(h, 1, Len(h) - 1), command |-> h[Len(h)]]

\* ----------------------------------------------------------------- Command
\* st = [editors, clipboard, history, backup]: the objects a command reaches
\* variant: a backup already saved is kept
saveBackupKeepFirst(st, c) ==
  IF st.backup[c] # << >> THEN st
  ELSE [st EXCEPT !.backup[c] = st.editors[c.editor].text]

saveBackup(st, c) == [st EXCEPT !.backup[c] = st.editors[c.editor].text]

\* variant: the selection is collapsed to the start of the text as well
CommandUndoResetSelection(st, c) ==
  [st EXCEPT !.editors[c.editor] =
     [@ EXCEPT !.text = st.backup[c], !.selectionStart = 0, !.selectionEnd = 0]]

CommandUndo(st, c) == [st EXCEPT !.editors[c.editor].text = st.backup[c]]

\* ------------------------------------------------------------- Application
\* variant: with nothing popped, the text is set to the backup of no command
ApplicationUndoBlank(st) ==
  LET p == pop(st.history)
      st1 == [st EXCEPT !.history = p.history]
  IN IF p.command # None THEN CommandUndo(st1, p.command)
     ELSE [st1 EXCEPT !.editors = [e \in EditorIds |-> [@[e] EXCEPT !.text = << >>]]]

\* variant: the command is undone but stays in history
ApplicationUndoKeep(st) ==
  LET p == pop(st.history)
  IN IF p.command # None THEN CommandUndo(st, p.command) ELSE st

ApplicationUndo(st) ==
  LET p == pop(st.history)
      st1 == [st EXCEPT !.history = p.history]
  IN IF p.command # None THEN CommandUndo(st1, p.command) ELSE st1

\* ------------------------------------------------------- concrete commands
\* variant: an empty selection leaves the clipboard as it was
CopyExecuteKeepNonEmpty(st, c) ==
  [st |-> IF getSelection(st.editors[c.editor]) = << >> THEN st
          ELSE [st EXCEPT !.clipboard = getSelection(st.editors[c.editor])],
   ret |-> FALSE]

\* variant: Copy reports a change
CopyExecuteTrue(st, c) ==
  [st |-> [st EXCEPT !.clipboard = getSelection(st.editors[c.editor])],
   ret |-> TRUE]

CopyExecute(st, c) ==
  [st |-> [st EXCEPT !.clipboard = getSelection(st.editors[c.editor])],
   ret |-> FALSE]

\* variant: the clipboard is taken after the selection is deleted
CutExecuteCopyAfter(st, c) ==
  LET st1 == saveBackup(st, c)
      st2 == [st1 EXCEPT !.editors[c.editor] = deleteSelection(@)]
  IN [st |-> [st2 EXCEPT !.clipboard = getSelection(st2.editors[c.editor])],
      ret |-> TRUE]

\* variant: the backup is saved after the selection is deleted
CutExecuteLateBackup(st, c) ==
  LET st1 == [st EXCEPT !.clipboard = getSelection(st.editors[c.editor])]
      st2 == [st1 EXCEPT !.editors[c.editor] = deleteSelection(@)]
  IN [st |-> saveBackup(st2, c), ret |-> TRUE]

CutExecute(st, c) ==
  LET st1 == saveBackup(st, c)
      st2 == [st1 EXCEPT !.clipboard = getSelection(st1.editors[c.editor])]
  IN [st |-> [st2 EXCEPT !.editors[c.editor] = deleteSelection(@)],
      ret |-> TRUE]

\* variant: the backup is saved after the selection is replaced
PasteExecuteLateBackup(st, c) ==
  LET st1 == [st EXCEPT !.editors[c.editor] = replaceSelection(@, st.clipboard)]
  IN [st |-> saveBackup(st1, c), ret |-> TRUE]

\* variant: Paste replaces the selection without saving the backup
PasteExecuteNoBackup(st, c) ==
  [st |-> [st EXCEPT !.editors[c.editor] = replaceSelection(@, st.clipboard)],
   ret |-> TRUE]

PasteExecute(st, c) ==
  LET st1 == saveBackup(st, c)
  IN [st |-> [st1 EXCEPT !.editors[c.editor] = replaceSelection(@, st1.clipboard)],
      ret |-> TRUE]

\* variant: Undo reports a change
UndoExecuteTrue(st, c) == [st |-> ApplicationUndo(st), ret |-> TRUE]

UndoExecute(st, c) == [st |-> ApplicationUndo(st), ret |-> FALSE]

execute(st, c) ==
  CASE c.kind = "Copy" -> CopyExecute(st, c)
    [] c.kind = "Cut" -> CutExecute(st, c)
    [] c.kind = "Paste" -> PasteExecute(st, c)
    [] c.kind = "Undo" -> UndoExecute(st, c)

\* variant: a command that leaves the text as it was is not pushed
executeCommandIfChanged(st, c) ==
  LET r == execute(st, c)
  IN IF r.ret /\ r.st.editors[c.editor].text # st.editors[c.editor].text
       THEN [r.st EXCEPT !.history = push(@, c)]
       ELSE r.st

\* variant: the command is pushed whatever execute() returns
executeCommandAlwaysPush(st, c) ==
  LET r == execute(st, c)
  IN [r.st EXCEPT !.history = push(@, c)]

executeCommand(st, c) ==
  LET r == execute(st, c)
  IN IF r.ret THEN [r.st EXCEPT !.history = push(@, c)] ELSE r.st

\* ----------------------------------------------------- memento example
\* new Memento(state), getState()
Memento(state) == [state |-> state]
getState(m) == m.state

\* what Array.pop() gives on an empty array
undefined == [state |-> "undefined"]

\* Editor of the memento example: content is its only field
type(content, text) == content \o text
getContent(content) == content
save(content) == Memento(content)
restore(content, m) == getState(m)

\* History of the memento example: mementos is its only field
HistoryPush(mementos, m) == Append(mementos, m)

\* variant: the oldest memento is removed and returned
HistoryPopOldest(mementos) ==
  IF mementos = << >> THEN [mementos |-> mementos, memento |-> undefined]
  ELSE [mementos |-> Tail(mementos), memento |-> mementos[1]]

HistoryPop(mementos) ==
  IF mementos = << >> THEN [mementos |-> mementos, memento |-> undefined]
  ELSE [mementos |-> Front(mementos), memento |-> mementos[Len(mementos)]]

\* ---------------------------------------------------- minimal iterator
\* it = [items, index]; items is the array the collection and its iterator share
ConcreteIterator(items) == [items |-> items, index |-> 0]

hasNext(it) == it.index < Len(it.items)

\* variant: the index advances whether or not an item is left
nextNoCheck(it) ==
  [it |-> [it EXCEPT !.index = @ + 1],
   value |-> IF it.index < Len(it.items) THEN it.items[it.index + 1] ELSE "undefined"]

\* items[index++], with the array counted from 1 here
next(it) ==
  IF hasNext(it)
    THEN [it |-> [it EXCEPT !.index = @ + 1], value |-> it.items[it.index + 1]]
    ELSE [it |-> it, value |-> "undefined"]

reset(it) == [it EXCEPT !.index = 0]

add(items, item) == Append(items, item)

\* ------------------------------------------------------------------- state
St == [editors |-> editors, clipboard |-> clipboard,
       history |-> history, backup |-> backup]

Install(st) ==
  /\ editors' = st.editors
  /\ clipboard' = st.clipboard
  /\ history' = st.history
  /\ backup' = st.backup
  /\ UNCHANGED <<activeEditor, memento, iterator>>

NoOp == [name |-> "init", cmd |-> None, args |-> FALSE, start |-> 0, end |-> 0,
         ret |-> FALSE, popped |-> None, value |-> << >>, again |-> FALSE]

\* executed[c]: times executeCommand ran c and its execute() returned true
\* undone[c]: times Application.undo called c.undo()
Counts0 == [nEdits |-> 0, nTrue |-> 0, nPopsByCmd |-> 0, nPopsDirect |-> 0,
            executed |-> [c \in CmdIds |-> 0], undone |-> [c \in CmdIds |-> 0]]

Bump(f, c) == IF c = None THEN f ELSE [f EXCEPT ![c] = @ + 1]

\* text0, sel0: the editor as constructed; pres: the texts from just before
\* each execute() that returned true and has not been undone since, oldest
\* first; mirror: the commands pushed onto a CommandHistory and not popped
\* since, newest first
Trail0(ed) == [text0 |-> ed.text, sel0 |-> <<ed.selectionStart, ed.selectionEnd>>,
               pres |-> << >>, mirror |-> << >>]

\* content, mementos: new Editor(), new History(); op, popped, before: the
\* last call, whether its pop() gave a memento, the content before it; log,
\* pops: every content saved and not discarded, and how many of the newest
\* of them have been popped
Memento0 == [content |-> << >>, mementos |-> << >>, op |-> "init",
             popped |-> FALSE, before |-> << >>, log |-> << >>, pops |-> 0]

\* items, index: new Collection().createIterator(); op, value, has: the last
\* call and what next() or hasNext() returned; returned: what next() has
\* returned since the iterator was created or reset
Iterator0 == [items |-> << >>, index |-> 0, op |-> "init", value |-> "undefined",
              has |-> FALSE, returned |-> << >>]

DemoIdle == [pc |-> "idle", text |-> << >>, sel1 |-> <<0, 0>>, sel2 |-> <<0, 0>>,
             checkpoints |-> << >>]

\* new Editor(ed.text), possibly with a selection already set, then
\* new Application(editor): empty clipboard, empty history; the command
\* instances are constructed with backup ''
InitApp(ed) ==
  /\ editors = [e \in EditorIds |-> IF e = 1 THEN ed ELSE Editor(<< >>)]
  /\ clipboard = << >>
  /\ activeEditor = 1
  /\ history = << >>
  /\ backup = [c \in CmdIds |-> << >>]
  /\ lastOp = NoOp
  /\ counts = Counts0
  /\ lastPre = << >>
  /\ trail = Trail0(ed)
  /\ memento = Memento0
  /\ iterator = Iterator0

Init == (\E t \in InitTexts : InitApp(Editor(t))) /\ demo = DemoIdle

\* ------------------------------------------------------------------- calls
\* editor.setSelection(start, end)
CallSetSelection(e, start, end) ==
  /\ editors' = [editors EXCEPT ![e] = setSelection(@, start, end)]
  /\ lastOp' = [NoOp EXCEPT !.name = "setSelection"]
  /\ UNCHANGED <<clipboard, activeEditor, history, backup, counts, lastPre, trail,
                 memento, iterator>>

\* editor.deleteSelection()
CallDeleteSelection(e) ==
  /\ editors' = [editors EXCEPT ![e] = deleteSelection(@)]
  /\ lastOp' = [NoOp EXCEPT !.name = "deleteSelection"]
  /\ counts' = [counts EXCEPT !.nEdits = @ + 1]
  /\ UNCHANGED <<clipboard, activeEditor, history, backup, lastPre, trail,
                 memento, iterator>>

\* editor.replaceSelection(t)
CallReplaceSelection(e, t) ==
  /\ editors' = [editors EXCEPT ![e] = replaceSelection(@, t)]
  /\ lastOp' = [NoOp EXCEPT !.name = "replaceSelection", !.value = t]
  /\ counts' = [counts EXCEPT !.nEdits = @ + 1]
  /\ UNCHANGED <<clipboard, activeEditor, history, backup, lastPre, trail,
                 memento, iterator>>

\* app.executeCommand(c)
CallExecuteCommand(c) ==
  LET r == execute(St, c)
      p == IF c.kind = "Undo" THEN pop(history).command ELSE None
  IN /\ Install(executeCommand(St, c))
     /\ lastOp' = [NoOp EXCEPT !.name = "executeCommand", !.cmd = c,
                               !.ret = r.ret, !.popped = p,
                               !.value = IF p # None THEN Last(trail.pres) ELSE << >>]
     /\ counts' = [counts EXCEPT
                     !.nTrue = IF r.ret THEN @ + 1 ELSE @,
                     !.nPopsByCmd = IF p # None THEN @ + 1 ELSE @,
                     !.executed = IF r.ret THEN Bump(@, c) ELSE @,
                     !.undone = Bump(@, p)]
     /\ lastPre' = IF r.ret THEN editors[c.editor].text ELSE lastPre
     /\ trail' = IF r.ret THEN [trail EXCEPT !.pres = Append(@, editors[c.editor].text)]
                 ELSE IF p # None
                   THEN [trail EXCEPT !.pres = Front(@)]
                   ELSE trail

\* app.undo()
CallUndo ==
  LET p == pop(history).command
  IN /\ Install(ApplicationUndo(St))
     /\ lastOp' = [NoOp EXCEPT !.name = "undo", !.popped = p,
                               !.value = IF p # None THEN Last(trail.pres) ELSE << >>]
     /\ counts' = [counts EXCEPT !.nPopsDirect = IF p # None THEN @ + 1 ELSE @,
                                 !.undone = Bump(@, p)]
     /\ trail' = IF p # None
                   THEN [trail EXCEPT !.pres = Front(@)]
                   ELSE trail
     /\ UNCHANGED lastPre

\* the exploration keeps texts and call counts within the bounds
Bounded ==
  /\ \A e \in EditorIds : Len(editors'[e].text) <= MaxLen
  /\ counts'.nTrue <= MaxExec
  /\ counts'.nEdits <= MaxEdits

\* ----------------------------------------------------------------- actions
\* end < start gives the editor of setSelection(start, start); those
\* arguments are drawn in SelSpec
SetSelection ==
  \E start \in SelArgs, end \in SelArgs :
    start <= end /\ CallSetSelection(activeEditor, start, end) /\ UNCHANGED demo

ExecuteCommand ==
  \E c \in CmdIds :
    c.editor = activeEditor /\ CallExecuteCommand(c) /\ Bounded /\ UNCHANGED demo

Undo == CallUndo /\ UNCHANGED demo

DeleteSelection == CallDeleteSelection(activeEditor) /\ Bounded /\ UNCHANGED demo

ReplaceSelection ==
  \E t \in ReplaceArgs :
    CallReplaceSelection(activeEditor, t) /\ Bounded /\ UNCHANGED demo

\* Application level: commands, undo and selection changes
Next == SetSelection \/ ExecuteCommand \/ Undo

Spec == Init /\ [][Next]_vars

\* Editor and Application level: the editor's own mutators are called too
EditNext ==
  SetSelection \/ ExecuteCommand \/ Undo \/ DeleteSelection \/ ReplaceSelection

EditSpec == Init /\ [][EditNext]_vars

\* the same without any undo: Copy, Cut and Paste only
ExecuteNoUndo ==
  \E c \in CmdIds :
    /\ c.editor = activeEditor /\ c.kind # "Undo"
    /\ CallExecuteCommand(c) /\ Bounded /\ UNCHANGED demo

NoUndoSpec ==
  Init /\ [][SetSelection \/ ExecuteNoUndo \/ DeleteSelection \/ ReplaceSelection]_vars

\* setSelection as a function of (text, start, end): any text, any selection
\* an editor can hold, any integers near the ends of the text
SelInit ==
  /\ \E t \in Texts, s \in 0..MaxLen, e \in 0..MaxLen :
       s <= e /\ InitApp([text |-> t, selectionStart |-> s, selectionEnd |-> e])
  /\ demo = DemoIdle

SelCall ==
  \E start \in WideSelArgs, end \in WideSelArgs :
    /\ editors' = [editors EXCEPT ![activeEditor] = setSelection(@, start, end)]
    /\ lastOp' = [NoOp EXCEPT !.name = "setSelection", !.args = TRUE,
                              !.start = start, !.end = end]
    /\ UNCHANGED <<clipboard, activeEditor, history, backup, counts, lastPre, trail,
                   demo, memento, iterator>>

\* editor.getSelection(); again: the call before was getSelection() too
SelQuery ==
  /\ lastOp' = [NoOp EXCEPT !.name = "getSelection",
                            !.value = getSelection(editors[activeEditor]),
                            !.again = (lastOp.name = "getSelection")]
  /\ UNCHANGED <<editors, clipboard, activeEditor, history, backup, counts, lastPre,
                 trail, demo, memento, iterator>>

SelSpec == SelInit /\ [][SelCall \/ SelQuery]_vars

\* a Cut and then a Paste with nothing in between, from any editor state
\* of SelInit
PairCut ==
  /\ counts.nTrue = 0
  /\ \E c \in CmdIds :
       c.editor = activeEditor /\ c.kind = "Cut" /\ CallExecuteCommand(c)
  /\ UNCHANGED demo

PairPaste ==
  /\ counts.nTrue = 1
  /\ \E c \in CmdIds :
       c.editor = activeEditor /\ c.kind = "Paste" /\ CallExecuteCommand(c)
  /\ UNCHANGED demo

PairSpec == SelInit /\ [][PairCut \/ PairPaste]_vars

\* commands constructed with any editor, the active one or another, run
\* through the one Application
ExecuteAny ==
  \E c \in CmdIds : CallExecuteCommand(c) /\ Bounded /\ UNCHANGED demo

AnyEditorSpec == Init /\ [][SetSelection \/ ExecuteAny \/ Undo]_vars

\* deleteSelection() on a selection within bounds, then replaceSelection(t)
\* at the collapsed position, t the removed text or another one
RoundInit ==
  /\ \E t \in Texts, s \in 0..MaxLen, e \in 0..MaxLen :
       /\ s <= e /\ e <= Len(t)
       /\ InitApp([text |-> t, selectionStart |-> s, selectionEnd |-> e])
  /\ demo = DemoIdle

RoundDelete ==
  /\ counts.nEdits = 0
  /\ CallDeleteSelection(activeEditor)
  /\ UNCHANGED demo

RoundReplace ==
  /\ counts.nEdits = 1
  /\ \E t \in {Slice(trail.text0, trail.sel0[1], trail.sel0[2])} \cup ReplaceArgs :
       CallReplaceSelection(activeEditor, t)
  /\ UNCHANGED demo

RoundSpec == RoundInit /\ [][RoundDelete \/ RoundReplace]_vars

\* a CommandHistory on its own: push(c) and pop() in any order
HistInit == InitApp(Editor(<< >>)) /\ demo = DemoIdle

HistPush ==
  /\ Len(history) <= MaxExec
  /\ \E c \in CmdIds :
       /\ history' = push(history, c)
       /\ lastOp' = [NoOp EXCEPT !.name = "push", !.cmd = c]
       /\ trail' = [trail EXCEPT !.mirror = <<c>> \o @]
  /\ UNCHANGED <<editors, clipboard, activeEditor, backup, counts, lastPre,
                 demo, memento, iterator>>

\* lastOp.cmd: the newest command of the mirror, None when there is none
HistPop ==
  /\ history' = pop(history).history
  /\ lastOp' = [NoOp EXCEPT !.name = "pop", !.popped = pop(history).command,
                            !.cmd = IF trail.mirror = << >> THEN None
                                    ELSE Head(trail.mirror)]
  /\ trail' = [trail EXCEPT !.mirror = IF @ = << >> THEN @ ELSE Tail(@)]
  /\ UNCHANGED <<editors, clipboard, activeEditor, backup, counts, lastPre,
                 demo, memento, iterator>>

HistSpec == HistInit /\ [][HistPush \/ HistPop]_vars

\* the memento example: type(text), history.push(editor.save()), and the
\* undo step  m = history.pop(); if (m) editor.restore(m)
MementoInit == InitApp(Editor(<< >>)) /\ demo = DemoIdle

MementoType ==
  /\ Len(memento.content) <= MaxLen
  /\ \E ch \in Chars :
       memento' = [memento EXCEPT !.content = type(@, <<ch>>), !.op = "type",
                                  !.popped = FALSE, !.before = << >>]
  /\ UNCHANGED <<editors, clipboard, activeEditor, history, backup, lastOp, counts,
                 lastPre, trail, demo, iterator>>

MementoSave ==
  /\ Len(memento.mementos) < MaxExec
  /\ memento' = [memento EXCEPT
                   !.mementos = HistoryPush(@, save(memento.content)),
                   !.op = "save", !.popped = FALSE, !.before = << >>,
                   !.log = Append(SubSeq(@, 1, Len(@) - memento.pops),
                                  getContent(memento.content)),
                   !.pops = 0]
  /\ UNCHANGED <<editors, clipboard, activeEditor, history, backup, lastOp, counts,
                 lastPre, trail, demo, iterator>>

MementoUndo ==
  LET r == HistoryPop(memento.mementos)
  IN /\ memento' = [memento EXCEPT
                      !.mementos = r.mementos,
                      !.content = IF r.memento # undefined THEN restore(@, r.memento)
                                  ELSE @,
                      !.op = "undo", !.popped = (r.memento # undefined),
                      !.before = memento.content,
                      !.pops = IF r.memento # undefined THEN @ + 1 ELSE @]
     /\ UNCHANGED <<editors, clipboard, activeEditor, history, backup, lastOp, counts,
                    lastPre, trail, demo, iterator>>

MementoSpec == MementoInit /\ [][MementoType \/ MementoSave \/ MementoUndo]_vars

\* the minimal iterator: collection.add(item) on the shared array, and
\* hasNext(), next(), reset() on the iterator
IterInit == InitApp(Editor(<< >>)) /\ demo = DemoIdle

IterOf == [items |-> iterator.items, index |-> iterator.index]

IterAdd ==
  /\ Len(iterator.items) <= MaxLen
  /\ \E x \in Chars :
       iterator' = [iterator EXCEPT !.items = add(@, x), !.op = "add",
                                    !.value = "undefined", !.has = FALSE]
  /\ UNCHANGED <<editors, clipboard, activeEditor, history, backup, lastOp, counts,
                 lastPre, trail, demo, memento>>

IterHasNext ==
  /\ iterator' = [iterator EXCEPT !.op = "hasNext", !.value = "undefined",
                                  !.has = hasNext(IterOf)]
  /\ UNCHANGED <<editors, clipboard, activeEditor, history, backup, lastOp, counts,
                 lastPre, trail, demo, memento>>

IterNext ==
  LET r == next(IterOf)
  IN /\ iterator' = [iterator EXCEPT
                       !.items = r.it.items, !.index = r.it.index,
                       !.op = "next", !.value = r.value, !.has = FALSE,
                       !.returned = IF r.value = "undefined" THEN @
                                    ELSE Append(@, r.value)]
     /\ UNCHANGED <<editors, clipboard, activeEditor, history, backup, lastOp, counts,
                    lastPre, trail, demo, memento>>

IterReset ==
  /\ iterator' = [iterator EXCEPT !.index = reset(IterOf).index, !.op = "reset",
                                  !.value = "undefined", !.has = FALSE,
                                  !.returned = << >>]
  /\ UNCHANGED <<editors, clipboard, activeEditor, history, backup, lastOp, counts,
                 lastPre, trail, demo, memento>>

IterSpec == IterInit /\ [][IterAdd \/ IterHasNext \/ IterNext \/ IterReset]_vars

\* ------------------------------------------------------- commandUndoDemo
\* The demo with its literals as inputs: the text, the first selection and
\* the second selection. Each command is a fresh instance.
DemoCmd(k) == [kind |-> k, editor |-> 1, n |-> 1]

DemoInit ==
  /\ \E t \in DemoTexts :
       /\ InitApp(Editor(t))
       /\ demo = [DemoIdle EXCEPT !.pc = "new", !.text = t]

DemoSelect ==
  /\ demo.pc = "new"
  /\ \E start \in DemoSelArgs, end \in DemoSelArgs :
       /\ CallSetSelection(1, start, end)
       /\ demo' = [demo EXCEPT !.pc = "selected", !.sel1 = <<start, end>>]

DemoCopy ==
  /\ demo.pc = "selected"
  /\ CallExecuteCommand(DemoCmd("Copy"))
  /\ demo' = [demo EXCEPT !.pc = "copied",
                !.checkpoints = Append(@, ClipboardEq \o clipboard')]

DemoCut ==
  /\ demo.pc = "copied"
  /\ CallExecuteCommand(DemoCmd("Cut"))
  /\ demo' = [demo EXCEPT !.pc = "cut",
                !.checkpoints = Append(@, TextEq \o editors'[1].text)]

DemoReselect ==
  /\ demo.pc = "cut"
  /\ \E start \in DemoSelArgs, end \in DemoSelArgs :
       /\ CallSetSelection(1, start, end)
       /\ demo' = [demo EXCEPT !.pc = "reselected", !.sel2 = <<start, end>>]

DemoPaste ==
  /\ demo.pc = "reselected"
  /\ CallExecuteCommand(DemoCmd("Paste"))
  /\ demo' = [demo EXCEPT !.pc = "pasted",
                !.checkpoints = Append(@, TextEq \o editors'[1].text)]

DemoUndo ==
  /\ demo.pc = "pasted"
  /\ CallExecuteCommand(DemoCmd("Undo"))
  /\ demo' = [demo EXCEPT !.pc = "undone",
                !.checkpoints = Append(@, TextEq \o editors'[1].text)]

DemoNext ==
  DemoSelect \/ DemoCopy \/ DemoCut \/ DemoReselect \/ DemoPaste \/ DemoUndo

DemoSpec == DemoInit /\ [][DemoNext]_vars

\* ------------------------------------------------------------------ claims
HelloWorldSp == <<"H", "e", "l", "l", "o", "W", "o", "r", "l", "d", " ">>
ActiveEd == editors[activeEditor]
Range(h) == {h[i] : i \in DOMAIN h}
NPops == counts.nPopsByCmd + counts.nPopsDirect
UndoCalled ==
  \/ lastOp.name = "undo"
  \/ lastOp.name = "executeCommand" /\ lastOp.cmd.kind = "Undo"
InBounds(ed) ==
  /\ 0 <= ed.selectionStart
  /\ ed.selectionStart <= ed.selectionEnd
  /\ ed.selectionEnd <= Len(ed.text)
DemoLiterals == demo.text = HelloWorld /\ demo.sel1 = <<6, 11>>

\* C1: after Cut and Paste commands run through executeCommand (selection
\* changes in between), the first undo that pops a command leaves the text of
\* that command's editor equal to the text it had just before the most recent
\* command whose execute() returned true.
C1_UndoRestoresPreCommandText ==
  (UndoCalled /\ lastOp.popped # None /\ NPops = 1)
    => editors[lastOp.popped.editor].text = lastPre

\* a first undo after two commands, restoring a non-empty text that differs
\* from what the popped command's own effect left
C1_Witness ==
  /\ UndoCalled /\ lastOp.popped # None /\ NPops = 1
  /\ counts.nTrue = 2 /\ Len(history) = 1
  /\ lastPre # << >> /\ lastPre # backup[history[1]]

\* C2 as stated: with executeCommand the only caller of undo, the number of
\* history entries equals the number of calls whose execute() returned true.
C2_HistoryCountsTrueReturns ==
  counts.nPopsDirect = 0 => Len(history) = counts.nTrue

\* C2 amended: with executeCommand the only caller of undo, the number of
\* history entries equals the number of calls whose execute() returned true
\* minus the number of Undo commands that popped an entry.
C2_HistoryCountsTrueMinusUndone ==
  counts.nPopsDirect = 0 => Len(history) = counts.nTrue - counts.nPopsByCmd

C2_Witness ==
  /\ counts.nPopsDirect = 0 /\ counts.nPopsByCmd = 1
  /\ counts.nTrue = 2 /\ Len(history) = 1

\* C3: every entry of history is a Cut or a Paste whose execute() returned
\* true; no Copy and no Undo command is ever an entry.
C3_HistoryHoldsOnlyChangers ==
  \A i \in DOMAIN history :
    /\ history[i].kind \in {"Cut", "Paste"}
    /\ counts.executed[history[i]] >= 1

\* a Copy was just executed with one command left in history, after an Undo
\* command had popped another
C3_Witness ==
  /\ lastOp.name = "executeCommand" /\ lastOp.cmd.kind = "Copy"
  /\ Len(history) = 1 /\ counts.nPopsByCmd = 1 /\ clipboard # << >>

\* C4 as stated: Application calls undo() on an instance at most once, and an
\* instance that was popped is never in history again.
C4_UndoneOnceNeverBack ==
  \A c \in CmdIds :
    /\ counts.undone[c] <= 1
    /\ counts.undone[c] >= 1 => c \notin Range(history)

\* C4 amended: for an instance passed to executeCommand at most once,
\* Application calls undo() on it at most once, and once popped it is never in
\* history again.
C4_ExecutedOnceUndoneOnce ==
  \A c \in CmdIds :
    counts.executed[c] <= 1 =>
      /\ counts.undone[c] <= 1
      /\ counts.undone[c] >= 1 => c \notin Range(history)

\* an instance executed once and undone, with another command still in
\* history and a further undo call made on it
C4_Witness ==
  \E c \in CmdIds :
    /\ counts.executed[c] = 1 /\ counts.undone[c] = 1
    /\ history # << >> /\ c \notin Range(history)
    /\ lastOp.name = "executeCommand" /\ lastOp.ret

\* C5: in every reachable state the selection of the editor is within bounds,
\* 0 <= selectionStart <= selectionEnd <= text.length.
C5_SelectionAlwaysInBounds == InBounds(ActiveEd)

\* C6: right after a call of setSelection, deleteSelection or replaceSelection,
\* in any reachable state, the selection is within bounds.
C6_InBoundsAfterSelectionCall ==
  lastOp.name \in {"setSelection", "deleteSelection", "replaceSelection"}
    => InBounds(ActiveEd)

\* C7: setSelection(start, end) sets selectionStart to start clamped to
\* [0, len] and selectionEnd to end clamped to [selectionStart, len]; the
\* selection is then within bounds, and empty at the clamped start when
\* end < start.
C7_SetSelectionClamps ==
  lastOp.args =>
    LET len == Len(ActiveEd.text)
        cs == IF lastOp.start < 0 THEN 0
              ELSE IF lastOp.start > len THEN len ELSE lastOp.start
        ce == IF lastOp.end > len THEN len ELSE lastOp.end
    IN /\ ActiveEd.selectionStart = cs
       /\ ActiveEd.selectionEnd = (IF ce < cs THEN cs ELSE ce)
       /\ InBounds(ActiveEd)
       /\ lastOp.end < lastOp.start =>
            /\ ActiveEd.selectionEnd = ActiveEd.selectionStart
            /\ ActiveEd.selectionStart = cs

\* start beyond the text and end negative, on a non-empty text
C7_Witness ==
  /\ lastOp.args /\ lastOp.end < 0 /\ lastOp.start > Len(ActiveEd.text)
  /\ ActiveEd.text # << >>

\* C8: an undo on an empty history, called directly or by an Undo command,
\* changes neither the text, the selection, the clipboard, the history nor
\* any backup.
C8_UndoOnEmptyHistoryIsNoOp ==
  [][(history = << >> /\ UndoCalled')
       => /\ editors' = editors
          /\ clipboard' = clipboard
          /\ history' = << >>
          /\ backup' = backup]_vars

\* an undo that popped nothing, on a non-empty text with a non-empty clipboard
C8_Witness ==
  /\ UndoCalled /\ lastOp.popped = None /\ history = << >>
  /\ ActiveEd.text # << >> /\ clipboard # << >>
  /\ ActiveEd.selectionEnd > 0

\* C9 as stated: in the demo, Paste at [5,5) makes the text "Hello World".
C9_DemoPasteGivesHelloWorld ==
  (DemoLiterals /\ demo.sel2 = <<5, 5>> /\ demo.pc = "pasted")
    => editors[1].text = HelloWorld

\* C9 amended: in the demo, after Copy and Cut (text "Hello ", clipboard
\* "World"), Paste at [5,5) makes the text "HelloWorld ": the clipboard goes in
\* before the trailing space.
C9_DemoPasteGivesHelloWorldSp ==
  /\ (DemoLiterals /\ demo.pc = "cut")
       => editors[1].text = HelloSp /\ clipboard = World
  /\ (DemoLiterals /\ demo.sel2 = <<5, 5>> /\ demo.pc = "pasted")
       => /\ editors[1].text = HelloWorldSp
          /\ demo.checkpoints[3] = TextEq \o HelloWorldSp

C9_Witness ==
  /\ DemoLiterals /\ demo.sel2 = <<5, 5>> /\ demo.pc = "pasted"
  /\ lastOp.cmd.kind = "Paste" /\ Len(history) = 2

\* C10: in the demo, Copy sets the clipboard to "World" and leaves the text
\* "Hello World" and the history empty; Cut then leaves the clipboard "World",
\* makes the text "Hello " and puts exactly one entry in history.
C10_DemoCopyThenCut ==
  /\ (DemoLiterals /\ demo.pc = "copied")
       => /\ clipboard = World
          /\ editors[1].text = HelloWorld
          /\ history = << >>
          /\ demo.checkpoints = <<ClipboardEq \o World>>
  /\ (DemoLiterals /\ demo.pc = "cut")
       => /\ clipboard = World
          /\ editors[1].text = HelloSp
          /\ history = <<DemoCmd("Cut")>>
          /\ demo.checkpoints[2] = TextEq \o HelloSp

C10_Witness ==
  /\ DemoLiterals /\ demo.pc = "cut"
  /\ lastOp.cmd.kind = "Cut" /\ lastOp.ret

\* C11: in the demo, the Undo command after Copy, Cut, setSelection(5,5) and
\* Paste reverts the text to "Hello ", leaves the Cut as the only entry in
\* history, and the fourth checkpoint reads "text=Hello ".
C11_DemoUndoRevertsPaste ==
  (DemoLiterals /\ demo.sel2 = <<5, 5>> /\ demo.pc = "undone")
    => /\ editors[1].text = HelloSp
       /\ history = <<DemoCmd("Cut")>>
       /\ Len(demo.checkpoints) = 4
       /\ demo.checkpoints[4] = TextEq \o HelloSp

C11_Witness ==
  /\ DemoLiterals /\ demo.sel2 = <<5, 5>> /\ demo.pc = "undone"
  /\ lastOp.cmd.kind = "Undo" /\ lastOp.popped = DemoCmd("Paste")

\* C12: for a text T and a selection [s,e) within bounds, deleteSelection()
\* followed by replaceSelection(T.slice(s,e)) leaves the text equal to T and
\* the selection equal to [s,e).
RemovedText == Slice(trail.text0, trail.sel0[1], trail.sel0[2])
C12_DeleteThenReplaceRestores ==
  (lastOp.name = "replaceSelection" /\ counts.nEdits = 2 /\ lastOp.value = RemovedText)
    => /\ ActiveEd.text = trail.text0
       /\ <<ActiveEd.selectionStart, ActiveEd.selectionEnd>> = trail.sel0

\* the round trip over a non-empty selection that does not start the text
C12_Witness ==
  /\ lastOp.name = "replaceSelection" /\ counts.nEdits = 2
  /\ lastOp.value = RemovedText /\ RemovedText # << >>
  /\ trail.sel0[1] > 0

\* C13: getSelection() returns the characters of text from selectionStart up
\* to selectionEnd (as slice does), changes neither the text nor the
\* selection, and a second call right after returns the same.
SelectedChars(ed) ==
  LET len == Len(ed.text)
      s == IF ed.selectionStart > len THEN len ELSE ed.selectionStart
      e == IF ed.selectionEnd > len THEN len ELSE ed.selectionEnd
  IN IF e <= s THEN << >> ELSE [i \in 1..(e - s) |-> ed.text[s + i]]
C13_GetSelectionIsPureQuery ==
  [][lastOp'.name = "getSelection"
       => /\ editors' = editors
          /\ lastOp'.value = SelectedChars(editors[activeEditor])
          /\ lastOp.name = "getSelection" => lastOp'.value = lastOp.value]_vars

\* a second call in a row, on a selection that reaches beyond the text
C13_Witness ==
  /\ lastOp.name = "getSelection" /\ lastOp.again
  /\ lastOp.value # << >>
  /\ ActiveEd.selectionEnd > Len(ActiveEd.text)

\* C14: a CommandHistory is a last-in-first-out stack: the commands pushed
\* and not yet popped are all retained in push order, pop() returns and
\* removes the most recently pushed of them, and pop() on an empty history
\* returns an absent value and leaves the history empty.
C14_HistoryIsLifo ==
  /\ Len(history) = Len(trail.mirror)
  /\ \A i \in 1..Len(history) : history[i] = trail.mirror[Len(history) - i + 1]
  /\ lastOp.name = "pop" => lastOp.popped = lastOp.cmd
  /\ (lastOp.name = "pop" /\ lastOp.cmd = None) => history = << >>

\* a pop that returned the newest of three commands, the older two differing
C14_Witness ==
  /\ lastOp.name = "pop" /\ lastOp.popped # None
  /\ Len(history) = 2 /\ history[1] # history[2]
  /\ lastOp.popped # history[1]

\* C15: in the memento example the k-th undo in a row sets the content to
\* what the k-th most recent snapshot saved; an undo on an empty History
\* gets undefined from pop() and leaves the content as it was.
C15_MementoUndoInReverseOrder ==
  memento.op = "undo"
    => IF memento.popped
         THEN /\ memento.pops >= 1 /\ memento.pops <= Len(memento.log)
              /\ memento.content = memento.log[Len(memento.log) - memento.pops + 1]
         ELSE /\ memento.pops = Len(memento.log)
              /\ memento.content = memento.before
              /\ memento.mementos = << >>

\* the second undo in a row, back to a non-empty content saved first (as in
\* the test: 'A', save, 'B', save, 'C', undo, undo)
C15_Witness ==
  /\ memento.op = "undo" /\ memento.popped /\ memento.pops = 2
  /\ Len(memento.log) = 2 /\ memento.log[1] # memento.log[2]
  /\ memento.content = memento.log[1] /\ memento.content # << >>
  /\ memento.before = memento.log[2]

\* C16: next() returns the items in insertion order, each once, then
\* undefined; the index never exceeds the number of items; hasNext() is true
\* exactly when an unreturned item remains; after reset() the iteration
\* starts over from the first item.
C16_IteratorInOrderOnce ==
  /\ iterator.index <= Len(iterator.items)
  /\ Len(iterator.returned) <= Len(iterator.items)
  /\ iterator.returned = SubSeq(iterator.items, 1, Len(iterator.returned))
  /\ iterator.op = "next"
       => IF iterator.value = "undefined"
            THEN iterator.returned = iterator.items
            ELSE iterator.value = Last(iterator.returned)
  /\ iterator.op = "hasNext"
       => (iterator.has <=> Len(iterator.returned) < Len(iterator.items))
  /\ iterator.op = "reset" => iterator.index = 0 /\ iterator.returned = << >>

\* next() returning undefined once two different items have been returned
C16_Witness ==
  /\ iterator.op = "next" /\ iterator.value = "undefined"
  /\ Len(iterator.items) = 2 /\ iterator.items[1] # iterator.items[2]
  /\ iterator.returned = iterator.items

\* C17: when every Cut/Paste command instance has been executed at most once,
\* each undo that pops sets the text to the value it had just before the
\* most recent command not yet undone was executed, and the undo that empties
\* history leaves the initial text.
C17_MultiLevelUndo ==
  (UndoCalled /\ lastOp.popped # None /\ \A c \in CmdIds : counts.executed[c] <= 1)
    => /\ editors[lastOp.popped.editor].text = lastOp.value
       /\ history = << >> => editors[lastOp.popped.editor].text = trail.text0

\* the second of two undos after a Cut and a Paste that both changed the text
C17_Witness ==
  /\ UndoCalled /\ lastOp.popped # None /\ NPops = 2 /\ counts.nTrue = 2
  /\ \A c \in CmdIds : counts.executed[c] <= 1
  /\ history = << >>
  /\ ActiveEd.text = trail.text0 /\ trail.text0 # << >>
  /\ \E c \in CmdIds : backup[c] # trail.text0 /\ counts.undone[c] = 1

\* C18: an undo that pops a command sets the text of its editor to the
\* command's backup and leaves selectionStart, selectionEnd and the
\* clipboard as they were.
C18_UndoChangesOnlyText ==
  [][(UndoCalled' /\ lastOp'.popped # None)
       => LET c == lastOp'.popped
          IN /\ editors'[c.editor].text = backup[c]
             /\ editors'[c.editor].selectionStart = editors[c.editor].selectionStart
             /\ editors'[c.editor].selectionEnd = editors[c.editor].selectionEnd
             /\ clipboard' = clipboard]_vars

\* a Cut of a whole non-empty text undone: the text is back, the selection
\* stays where a later setSelection put it, the clipboard keeps the cut text
C18_Witness ==
  /\ UndoCalled /\ lastOp.popped # None /\ lastOp.popped.kind = "Cut"
  /\ clipboard # << >> /\ ActiveEd.text = clipboard
  /\ ActiveEd.selectionStart > 0
  /\ ActiveEd.selectionStart = ActiveEd.selectionEnd

\* C19: executeCommand of an Undo command does what one app.undo() does: a
\* non-empty history loses its top command, which is undone, an empty one
\* leaves everything as it was; execute() returns false and the Undo command
\* is not in history afterwards.
C19_UndoCommandIsOneUndo ==
  [][(lastOp'.name = "executeCommand" /\ lastOp'.cmd.kind = "Undo")
       => /\ <<editors', clipboard', history', backup'>>
               = <<ApplicationUndo(St).editors, ApplicationUndo(St).clipboard,
                   ApplicationUndo(St).history, ApplicationUndo(St).backup>>
          /\ IF history = << >>
               THEN /\ history' = << >> /\ editors' = editors
                    /\ clipboard' = clipboard /\ backup' = backup
               ELSE /\ Len(history') = Len(history) - 1
                    /\ history' = Front(history)
                    /\ lastOp'.popped = Last(history)
          /\ lastOp'.ret = FALSE
          /\ \A i \in 1..Len(history') : history'[i].kind # "Undo"]_vars

\* an Undo command that popped the newer of two commands and changed the text
C19_Witness ==
  /\ lastOp.name = "executeCommand" /\ lastOp.cmd.kind = "Undo"
  /\ lastOp.popped # None /\ Len(history) = 1
  /\ lastOp.popped # history[1]
  /\ ActiveEd.text # << >>

\* C20: the length of history equals the number of Cut and Paste commands
\* executed through executeCommand minus the number of undo invocations,
\* direct or by an Undo command, made on a non-empty history; it is never
\* negative.
Changers == {c \in CmdIds : c.kind \in {"Cut", "Paste"}}
RECURSIVE SumOver(_, _)
SumOver(f, S) ==
  IF S = {} THEN 0
  ELSE LET c == CHOOSE x \in S : TRUE IN f[c] + SumOver(f, S \ {c})
C20_HistoryLengthIsExecutedMinusUndone ==
  /\ Len(history) = SumOver(counts.executed, Changers) - NPops
  /\ Len(history) >= 0
  /\ SumOver(counts.executed, Changers) >= NPops

\* a direct undo and an Undo command have each popped one of two commands
C20_Witness ==
  /\ counts.nPopsDirect = 1 /\ counts.nPopsByCmd = 1
  /\ SumOver(counts.executed, Changers) = 2
  /\ history = << >>

\* the text before selectionStart and the text from selectionEnd on, both
\* positions taken within the text
TextBefore(ed) ==
  SubSeq(ed.text, 1, IF ed.selectionStart > Len(ed.text) THEN Len(ed.text)
                     ELSE ed.selectionStart)
TextAfter(ed) ==
  SubSeq(ed.text, (IF ed.selectionEnd > Len(ed.text) THEN Len(ed.text)
                   ELSE ed.selectionEnd) + 1, Len(ed.text))
PushedOnTop(c) ==
  /\ Len(history') = Len(history) + 1
  /\ history'[Len(history')] = c
  /\ \A i \in 1..Len(history) : history'[i] = history[i]

\* C21: executeCommand of a Cut on text T with selection [s,e) sets the
\* clipboard to T.slice(s,e), the text to T.slice(0,s) + T.slice(e), the
\* selection to [s,s), returns true and puts the command on top of history.
C21_CutEffect ==
  [][(lastOp'.name = "executeCommand" /\ lastOp'.cmd.kind = "Cut")
       => LET c == lastOp'.cmd
              ed == editors[c.editor]
          IN /\ clipboard' = SelectedChars(ed)
             /\ editors'[c.editor].text = TextBefore(ed) \o TextAfter(ed)
             /\ editors'[c.editor].selectionStart = ed.selectionStart
             /\ editors'[c.editor].selectionEnd = ed.selectionStart
             /\ lastOp'.ret = TRUE
             /\ PushedOnTop(c)]_vars

\* a Cut of a non-empty selection that left some text, pushed above another
\* command
C21_Witness ==
  /\ lastOp.name = "executeCommand" /\ lastOp.cmd.kind = "Cut"
  /\ clipboard # << >> /\ ActiveEd.text # << >>
  /\ Len(history) = 2 /\ history[2] = lastOp.cmd /\ history[1] # lastOp.cmd

\* C22: executeCommand of a Paste on text T with selection [s,e) and
\* clipboard C sets the text to T.slice(0,s) + C + T.slice(e) and the
\* selection to [s, s + C.length), leaves the clipboard equal to C, returns
\* true and puts the command on top of history.
C22_PasteEffect ==
  [][(lastOp'.name = "executeCommand" /\ lastOp'.cmd.kind = "Paste")
       => LET c == lastOp'.cmd
              ed == editors[c.editor]
          IN /\ editors'[c.editor].text = TextBefore(ed) \o clipboard \o TextAfter(ed)
             /\ editors'[c.editor].selectionStart = ed.selectionStart
             /\ editors'[c.editor].selectionEnd = ed.selectionStart + Len(clipboard)
             /\ clipboard' = clipboard
             /\ lastOp'.ret = TRUE
             /\ PushedOnTop(c)]_vars

\* a Paste of a non-empty clipboard at a position after the start of the text
C22_Witness ==
  /\ lastOp.name = "executeCommand" /\ lastOp.cmd.kind = "Paste"
  /\ clipboard # << >> /\ ActiveEd.selectionStart > 0
  /\ ActiveEd.selectionEnd = ActiveEd.selectionStart + Len(clipboard)
  /\ history # << >> /\ Last(history) = lastOp.cmd

\* C23: executeCommand of a Copy sets the clipboard to the selected text,
\* the empty string when the selection is empty, and leaves the text, the
\* selection and history unchanged; it returns false and is not pushed.
C23_CopyEffect ==
  [][(lastOp'.name = "executeCommand" /\ lastOp'.cmd.kind = "Copy")
       => /\ clipboard' = SelectedChars(editors[lastOp'.cmd.editor])
          /\ editors' = editors
          /\ history' = history
          /\ backup' = backup
          /\ lastOp'.ret = FALSE
          /\ \A i \in 1..Len(history') : history'[i].kind # "Copy"]_vars

\* a Copy with an empty selection has emptied the clipboard that the one Cut
\* in history had filled
C23_Witness ==
  /\ lastOp.name = "executeCommand" /\ lastOp.cmd.kind = "Copy"
  /\ clipboard = << >>
  /\ counts.nTrue = 1 /\ Len(history) = 1 /\ history[1].kind = "Cut"
  /\ backup[history[1]] # ActiveEd.text

\* C24: after every execution of a Cut or a Paste the command's backup is
\* the text as it was on entry to that execute(), and every command in
\* history has executed, no more often in history than it has executed.
C24_BackupBeforeMutationPushAfterExecute ==
  /\ (lastOp.name = "executeCommand" /\ lastOp.cmd.kind \in {"Cut", "Paste"})
       => backup[lastOp.cmd] = lastPre
  /\ \A c \in CmdIds :
       Cardinality({i \in DOMAIN history : history[i] = c})
         <= counts.executed[c]

\* a Paste that changed the text, pushed above another command
C24_Witness ==
  /\ lastOp.name = "executeCommand" /\ lastOp.cmd.kind = "Paste"
  /\ backup[lastOp.cmd] = lastPre /\ ActiveEd.text # lastPre
  /\ Len(history) = 2 /\ history[2] = lastOp.cmd

\* C25: when one Cut or Paste instance has been executed twice (and nothing
\* else has changed the text), its backup is the text from just before the
\* second execution, it is in history twice, and each of the undos that
\* follow sets the text to that backup.
C25_SecondExecutionOverwritesBackup ==
  \A c \in Changers :
    (counts.executed[c] = 2 /\ counts.nTrue = 2)
      => /\ backup[c] = lastPre
         /\ NPops = 0 => history = <<c, c>>
         /\ (UndoCalled /\ lastOp.popped # None)
              => /\ lastOp.popped = c
                 /\ editors[c.editor].text = lastPre

\* the second undo after a Cut executed twice: the text is the one from
\* before the second execution, not the initial one
C25_Witness ==
  /\ UndoCalled /\ lastOp.popped # None /\ lastOp.popped.kind = "Cut"
  /\ counts.executed[lastOp.popped] = 2 /\ counts.nTrue = 2 /\ NPops = 2
  /\ history = << >>
  /\ ActiveEd.text = lastPre /\ lastPre # trail.text0 /\ lastPre # << >>

\* C26: every executeCommand of a Cut or a Paste adds exactly one entry to
\* history, also when it leaves the text unchanged; an undo right after
\* such a command pops that entry and leaves the text as it is.
C26_UnchangedTextStillOneEntry ==
  [][/\ (lastOp'.name = "executeCommand" /\ lastOp'.cmd.kind \in {"Cut", "Paste"})
          => /\ Len(history') = Len(history) + 1
             /\ Last(history') = lastOp'.cmd
     /\ (/\ lastOp.name = "executeCommand" /\ lastOp.cmd.kind \in {"Cut", "Paste"}
         /\ editors[lastOp.cmd.editor].text = lastPre
         /\ UndoCalled')
          => /\ lastOp'.popped = lastOp.cmd
             /\ Len(history') = Len(history) - 1
             /\ editors'[lastOp.cmd.editor].text = editors[lastOp.cmd.editor].text]_vars

\* a Cut on the empty text (its selection is empty) was the one command
\* executed, and an undo has popped it
C26_Witness ==
  /\ trail.text0 = << >> /\ counts.nTrue = 1 /\ NPops = 1
  /\ UndoCalled /\ lastOp.popped # None /\ lastOp.popped.kind = "Cut"
  /\ ActiveEd.text = << >> /\ history = << >>

\* C27: from a new Editor, any sequence of setSelection, deleteSelection,
\* replaceSelection, Copy, Cut and Paste, without any undo, keeps
\* 0 <= selectionStart <= selectionEnd <= text.length.
C27_InBoundsWithoutUndo ==
  /\ 0 <= ActiveEd.selectionStart
  /\ ActiveEd.selectionStart <= ActiveEd.selectionEnd
  /\ ActiveEd.selectionEnd <= Len(ActiveEd.text)

\* a direct replaceSelection after two Cut/Paste executions, leaving a
\* non-empty selection that ends inside the text
C27_Witness ==
  /\ lastOp.name = "replaceSelection" /\ counts.nTrue = 2 /\ NPops = 0
  /\ ActiveEd.selectionStart < ActiveEd.selectionEnd
  /\ ActiveEd.selectionEnd < Len(ActiveEd.text)

\* C28: a Cut followed immediately by a Paste leaves the text as it was
\* before the Cut and the selection the originally selected range, the
\* clipboard holds the cut text, and history has grown by the Cut below the
\* Paste.
Editor0 ==
  [text |-> trail.text0, selectionStart |-> trail.sel0[1],
   selectionEnd |-> trail.sel0[2]]
C28_CutThenPasteRoundTrip ==
  (counts.nTrue = 2 /\ lastOp.name = "executeCommand" /\ lastOp.cmd.kind = "Paste")
    => /\ ActiveEd.text = trail.text0
       /\ <<ActiveEd.selectionStart, ActiveEd.selectionEnd>> = trail.sel0
       /\ clipboard = SelectedChars(Editor0)
       /\ Len(history) = 2
       /\ history[1].kind = "Cut" /\ history[2] = lastOp.cmd

\* C29: a command run through the Application, and Application.undo(),
\* change the text and the selection of app.activeEditor only: every other
\* editor stays as it was constructed.
C29_OnlyActiveEditorChanges ==
  \A e \in EditorIds \ {activeEditor} :
    /\ editors[e].text = << >>
    /\ editors[e].selectionStart = 0
    /\ editors[e].selectionEnd = 0

\* C30: every undo() that Application.undo() calls is on a Cut or a Paste
\* that has executed, whose backup was therefore saved by saveBackup; no Copy
\* and no Undo command is ever undone, and their backups stay ''.
C30_UndoOnlyOnExecutedChangers ==
  /\ (UndoCalled /\ lastOp.popped # None)
       => /\ lastOp.popped.kind \in {"Cut", "Paste"}
          /\ counts.executed[lastOp.popped] >= 1
          /\ editors[lastOp.popped.editor].text = backup[lastOp.popped]
  /\ \A c \in CmdIds \ Changers :
       counts.undone[c] = 0 /\ backup[c] = << >>

\* an undo of a Paste, after a Copy, that put a non-empty text back
C30_Witness ==
  /\ UndoCalled /\ lastOp.popped # None /\ lastOp.popped.kind = "Paste"
  /\ counts.executed[lastOp.popped] = 1
  /\ clipboard # << >>
  /\ ActiveEd.text = backup[lastOp.popped] /\ ActiveEd.text # << >>
  /\ ActiveEd.text # clipboard

====
